---- MODULE Spec2Model ----
(***************************************************************************)
(* A model of RedInk's outline parser (backend/services/outline.py) and of *)
(* its history record service (backend/services/history.py).               *)
(*                                                                         *)
(* Outline text is modelled as a sequence of lexemes.  A lexeme is either  *)
(* one ordinary character or one occurrence of a multi-character literal   *)
(* the parser looks for ("<page>", a Chinese page-type word, written here *)
(* in pinyin).  Hyphens are single characters, so that "---" is three      *)
(* lexemes and str.split's left-to-right, non-overlapping scan is modelled *)
(* as it runs.                                                             *)
(***************************************************************************)
EXTENDS Integers, Sequences, FiniteSets, TLC

VARIABLES
    outline_text,       \* the argument of _parse_outline
    parse_result,       \* what _parse_outline returned, or NotCalled
    generate_result,    \* what generate_outline returned, or NotGenerated
    client_outcome,     \* what self.client.generate_text did in that call
    history_records,    \* table history_records: id -> row
    outline_pages,      \* table outline_pages: a set of rows
    task_images,        \* table task_images: a set of rows
    history_dir,        \* the history root: task id -> directory entry
    now,                \* datetime.utcnow()
    result,             \* the call of the history service made by the last
                        \* step and what it returned, NoCall if none
    provider_configs,   \* table provider_configs: (category, name) -> row
    providers_config,   \* Config._text_providers_config and
                        \* Config._image_providers_config, by category
    load_pc,            \* a load_*_providers_config call under way: the
                        \* category and the rows it read, or NotLoading
    config_pc,          \* where POST /config is: "boot" before the server
                        \* serves, "idle", "text", "clear"
    config_result       \* the configuration call made by the last step

parse_vars == <<outline_text, parse_result, generate_result, client_outcome>>

db_vars == <<history_records, outline_pages, task_images>>

history_vars == <<history_records, outline_pages, task_images, history_dir,
                  now, result>>

config_vars == <<provider_configs, providers_config, load_pc, config_pc,
                 config_result>>

vars == <<outline_text, parse_result, generate_result, client_outcome,
          history_records, outline_pages, task_images, history_dir, now,
          result,
          provider_configs, providers_config, load_pc, config_pc,
          config_result>>

---------------------------------------------------------------------------
(* Bounds *)

MaxLen == 5         \* longest outline text, in lexemes
MaxFiles == 3       \* most image files the generator writes into a task directory
MaxRowid == 2       \* largest rowid of history_records
MaxClock == 2       \* latest time the clock reaches
MaxErrorLen == 2    \* longest error text of the text provider, in words

---------------------------------------------------------------------------
(* Lexemes of an outline text *)

PAGE_LOWER == "<page>"      \* the marker exactly as the code spells it
PAGE_OTHER == "<PAGE>"      \* the marker in any other letter case
HYPHEN     == "-"
WS         == " "           \* any whitespace character (blank, newline)
LBRACKET   == "["
RBRACKET   == "]"
COVER_CN   == "fengmian"   \* the page-type word for "cover"
CONTENT_CN == "neirong"    \* the page-type word for "content"
SUMMARY_CN == "zongjie"    \* the page-type word for "summary"
ORDINARY   == "a"           \* any other non-whitespace character

Lexemes ==
    {PAGE_LOWER, PAGE_OTHER, HYPHEN, WS, LBRACKET, RBRACKET,
     COVER_CN, CONTENT_CN, SUMMARY_CN, ORDINARY}

Texts == UNION {[1..n -> Lexemes] : n \in 0..MaxLen}

NotCalled == "not_called"

\* generate_outline was not called
NotGenerated == [called |-> FALSE]

---------------------------------------------------------------------------
(* str and re primitives used by _parse_outline *)

\* '<page>' in outline_text : a case-sensitive substring test
ContainsPageMarker(text) == \E i \in 1..Len(text) : text[i] = PAGE_LOWER

\* what the pattern r'<page>' matches under re.IGNORECASE
MatchesPagePattern(c) == c \in {PAGE_LOWER, PAGE_OTHER}

\* re.split(r'<page>', text, flags=re.IGNORECASE), scanning from lexeme i
\* with the segment cur under construction
RECURSIVE ReSplitPage(_, _, _)
ReSplitPage(text, i, cur) ==
    IF i > Len(text) THEN <<cur>>
    ELSE IF MatchesPagePattern(text[i])
         THEN <<cur>> \o ReSplitPage(text, i + 1, <<>>)
         ELSE ReSplitPage(text, i + 1, Append(cur, text[i]))

\* text.split("---"): leftmost, non-overlapping occurrences of three hyphens
RECURSIVE StrSplitDashes(_, _, _)
StrSplitDashes(text, i, cur) ==
    IF i > Len(text) THEN <<cur>>
    ELSE IF /\ i + 2 <= Len(text)
            /\ text[i] = HYPHEN /\ text[i + 1] = HYPHEN /\ text[i + 2] = HYPHEN
         THEN <<cur>> \o StrSplitDashes(text, i + 3, <<>>)
         ELSE StrSplitDashes(text, i + 1, Append(cur, text[i]))

\* str.strip(): drop leading and trailing whitespace
RECURSIVE LStrip(_)
LStrip(s) == IF s # <<>> /\ Head(s) = WS THEN LStrip(Tail(s)) ELSE s

\* Strip with a fault: lstrip() instead of strip()
Strip_LeftOnly(s) == LStrip(s)

RECURSIVE RStrip(_)
RStrip(s) ==
    IF s # <<>> /\ s[Len(s)] = WS THEN RStrip(SubSeq(s, 1, Len(s) - 1)) ELSE s

Strip(s) == RStrip(LStrip(s))

\* re.match(r"\[(\S+)\]", page_text): the positions j of a closing bracket
\* that can end a match: "[" at 1, one or more non-whitespace at 2..j-1
MatchEnds(page_text) ==
    {j \in 3..Len(page_text) :
        /\ page_text[1] = LBRACKET
        /\ page_text[j] = RBRACKET
        /\ \A k \in 2..(j - 1) : page_text[k] # WS}

NoMatch == <<"no_match">>

Max(S) == CHOOSE x \in S : \A y \in S : y <= x

\* type_match.group(1); \S+ is greedy, so the match ends at the last
\* possible closing bracket
TypeMatchGroup(page_text) ==
    IF MatchEnds(page_text) = {} THEN NoMatch
    ELSE SubSeq(page_text, 2, Max(MatchEnds(page_text)) - 1)

\* type_mapping.get(type_cn, "content")
TypeMapping(type_cn) ==
    IF type_cn = <<COVER_CN>> THEN "cover"
    ELSE IF type_cn = <<CONTENT_CN>> THEN "content"
    ELSE IF type_cn = <<SUMMARY_CN>> THEN "summary"
    ELSE "content"

\* page_type of one stripped segment
PageType(page_text) ==
    IF TypeMatchGroup(page_text) = NoMatch THEN "content"
    ELSE TypeMapping(TypeMatchGroup(page_text))

---------------------------------------------------------------------------
(* OutlineService._parse_outline *)

\* three hyphens in a row somewhere in the text
ContainsDashes(text) ==
    \E i \in 1..(Len(text) - 2) :
        text[i] = HYPHEN /\ text[i + 1] = HYPHEN /\ text[i + 2] = HYPHEN

\* UsePageMarker with a fault: the legacy marker takes precedence
UsePageMarker_DashFirst(text) ==
    ContainsPageMarker(text) /\ ~ContainsDashes(text)

\* which marker the text is split on
UsePageMarker(text) == ContainsPageMarker(text)

\* pages_raw
PagesRaw(text) ==
    IF UsePageMarker(text) THEN ReSplitPage(text, 1, <<>>)
    ELSE StrSplitDashes(text, 1, <<>>)

\* PageIndex with a fault: enumerate(pages_raw, 1)
PageIndex_OneBased(raw, i) == i

\* the 'index' the code stores for the segment at position i of pages_raw
\* (positions are 1-based here, enumerate() is 0-based)
PageIndex(raw, i) == i - 1

\* the loop over enumerate(pages_raw), from position i on
RECURSIVE BuildPages(_, _)
BuildPages(raw, i) ==
    IF i > Len(raw) THEN <<>>
    ELSE LET page_text == Strip(raw[i]) IN
         IF page_text = <<>> THEN BuildPages(raw, i + 1)
         ELSE <<[index |-> PageIndex(raw, i),
                 type |-> PageType(page_text),
                 content |-> page_text]>> \o BuildPages(raw, i + 1)

_parse_outline(text) == BuildPages(PagesRaw(text), 1)

---------------------------------------------------------------------------
(* Values of the history service *)

NoneStr == "<None>"         \* None where a str is expected
None == [none |-> TRUE]     \* None where a dict or a filename is expected

\* no call was made by the last step
NoCall == [op |-> "none"]

RecordIds == {"r1", "r2"}   \* the values uuid.uuid4() can return
TaskIds == {"t1", "t2"}     \* names of entries of the history root

\* A filename "[thumb_]<stem><ext>": the stem is the decimal numeral of n
\* (numeric) or word number n, which is no numeral.
FileName(thumb, numeric, n, ext) ==
    [thumb |-> thumb, numeric |-> numeric, n |-> n, ext |-> ext]

\* "{index}.png", what the image generator writes for page index i
PageImage(i) == FileName(FALSE, TRUE, i, ".png")

\* dict.get(key, default) on a dict modelled as a record
DictGet(d, key, default) == IF key \in DOMAIN d THEN d[key] ELSE default

\* truth value of an Optional[str]
TruthyStr(x) == x # NoneStr /\ x # ""

\* TruthyList with a fault: the empty list counts as supplied
TruthyList_Always(l) == TRUE

\* truth value of a list
TruthyList(l) == l # <<>>

\* An entry of the history root: nothing, a regular file, a directory, or
\* a directory os.listdir() raises on.  A directory holds its names in the
\* order the file system returns them, which stays the same for as long as
\* the directory is not changed.
AbsentEntry == [kind |-> "absent", listing |-> <<>>]

FileEntry == [kind |-> "file", listing |-> <<>>]

DirEntry(listing) == [kind |-> "dir", listing |-> listing]

UnreadableDirEntry(listing) == [kind |-> "unreadable_dir", listing |-> listing]

\* IsDir with a fault: os.path.exists(task_dir) only
IsDir_ExistsOnly(entry) == entry.kind # "absent"

\* os.path.exists(task_dir) and os.path.isdir(task_dir)
IsDir(entry) == entry.kind \in {"dir", "unreadable_dir"}

Range(seq) == {seq[i] : i \in DOMAIN seq}

\* the names in a directory
Files(entry) == Range(entry.listing)

---------------------------------------------------------------------------
(* The database: the three tables, the rows a call adds, the constraints a *)
(* commit enforces                                                         *)

Db == [history_records |-> history_records,
       outline_pages |-> outline_pages,
       task_images |-> task_images]

\* record.pages
PagesOf(pages_table, record_id) ==
    {p \in pages_table : p.record_id = record_id}

\* record.images
ImagesOf(images_table, record_id) ==
    {im \in images_table : im.record_id = record_id}

\* OutlinePage(record_id=..., page_index=page.get('index', 0), ...) for
\* every page of the list, in order
NewPageRows(record_id, pages) ==
    [i \in 1..Len(pages) |->
        [record_id |-> record_id,
         page_index |-> DictGet(pages[i], "index", 0),
         page_type |-> DictGet(pages[i], "type", "content"),
         content |-> DictGet(pages[i], "content", <<>>)]]

\* TaskImage(record_id=..., image_index=idx, filename=filename) for
\* idx, filename in enumerate(generated)
NewImageRows(record_id, generated) ==
    [i \in 1..Len(generated) |->
        [record_id |-> record_id,
         image_index |-> i - 1,
         filename |-> generated[i]]]

\* UniquePageIndex with a fault: the table has no unique constraint
UniquePageIndex_Off(rows) == TRUE

\* uix_record_page: (record_id, page_index) is unique among the rows added
UniquePageIndex(rows) ==
    \A i, j \in DOMAIN rows :
        (rows[i].record_id = rows[j].record_id
            /\ rows[i].page_index = rows[j].page_index) => i = j

\* HistoryRecord.title is nullable=False
TitleNotNull(record) == record.title # NoneStr

\* TaskImage.filename is nullable=False
FilenamesNotNull(rows) == \A i \in DOMAIN rows : rows[i].filename # None

---------------------------------------------------------------------------
(* HistoryService.update_record *)

\* RecordMissing with a fault: the call reports success
RecordMissing_ReturnsTrue(db) == [ret |-> TRUE, db |-> db]

\* if not record: return False
RecordMissing(db) == [ret |-> FALSE, db |-> db]

\* Touched with a fault: updated_at is left as it was
Touched_Keep(record, clock) == record

\* record.updated_at = datetime.utcnow()
Touched(record, clock) == [record EXCEPT !.updated_at = clock]

\* ReplacedPages with a fault: the old pages are not deleted
ReplacedPages_Append(pages_table, record_id, page_rows) ==
    pages_table \cup Range(page_rows)

\* OutlinePage.query.filter_by(record_id=record_id).delete() and the
\* pages added after it
ReplacedPages(pages_table, record_id, page_rows) ==
    (pages_table \ PagesOf(pages_table, record_id)) \cup Range(page_rows)

\* Rollback with a fault: the changes of the record's row are kept
Rollback_KeepsRecord(db, attempted) ==
    [db EXCEPT !.history_records = attempted.history_records]

\* db.session.rollback(): the database as it was before the call, not as
\* the call attempted to leave it
Rollback(db, attempted) == db

\* The call on database db at time clock: what it returns and the
\* database it leaves.  Everything up to db.session.commit() is in one
\* transaction; a constraint violation raises inside the try block, the
\* except branch rolls the transaction back and returns False.
update_record(db, record_id, outline, images, status, thumbnail, clock) ==
    IF record_id \notin DOMAIN db.history_records
    THEN RecordMissing(db)
    ELSE
    LET record == db.history_records[record_id]
        page_rows ==
            IF outline # None
            THEN NewPageRows(record_id, DictGet(outline, "pages", <<>>))
            ELSE <<>>
        task_id == IF images # None THEN DictGet(images, "task_id", NoneStr)
                   ELSE NoneStr
        generated == IF images # None THEN DictGet(images, "generated", <<>>)
                     ELSE <<>>
        image_rows == NewImageRows(record_id, generated)
        new_record ==
            [Touched(record, clock) EXCEPT
                !.outline_text =
                    IF outline # None THEN DictGet(outline, "raw", <<>>)
                    ELSE @,
                !.task_id = IF TruthyStr(task_id) THEN task_id ELSE @,
                !.status = IF status # NoneStr THEN status ELSE @,
                !.thumbnail = IF thumbnail # None THEN thumbnail ELSE @]
        new_pages ==
            IF outline # None
            THEN ReplacedPages(db.outline_pages, record_id, page_rows)
            ELSE db.outline_pages
        new_images ==
            IF TruthyList(generated)
            THEN (db.task_images \ ImagesOf(db.task_images, record_id))
                    \cup Range(image_rows)
            ELSE db.task_images
        attempted ==
            [history_records |->
                 [db.history_records EXCEPT ![record_id] = new_record],
             outline_pages |-> new_pages,
             task_images |-> new_images]
    IN  IF UniquePageIndex(page_rows) /\ FilenamesNotNull(image_rows)
        THEN [ret |-> TRUE, db |-> attempted]
        ELSE [ret |-> FALSE, db |-> Rollback(db, attempted)]

---------------------------------------------------------------------------
(* HistoryService.create_record *)

\* The rowid SQLite gives to a new row of history_records: one more than
\* the largest rowid in the table.
NextRowid(records_table) ==
    IF DOMAIN records_table = {} THEN 1
    ELSE 1 + CHOOSE n \in {records_table[id].rowid : id \in DOMAIN records_table} :
                 \A id \in DOMAIN records_table : records_table[id].rowid <= n

\* The call with uuid4() = record_id: the rows are added and committed; a
\* constraint violation rolls back and is raised to the caller.
create_record(db, record_id, topic, outline, task_id, clock) ==
    LET record == [rowid |-> NextRowid(db.history_records),
                   title |-> topic,
                   status |-> "draft",
                   thumbnail |-> None,
                   task_id |-> task_id,
                   outline_text |-> DictGet(outline, "raw", <<>>),
                   created_at |-> clock,
                   updated_at |-> clock]
        page_rows == NewPageRows(record_id, DictGet(outline, "pages", <<>>))
    IN  IF UniquePageIndex(page_rows) /\ TitleNotNull(record)
        THEN [raised |-> FALSE,
              ret |-> record_id,
              db |-> [history_records |->
                          [id \in DOMAIN db.history_records \cup {record_id} |->
                              IF id = record_id THEN record
                              ELSE db.history_records[id]],
                      outline_pages |-> db.outline_pages \cup Range(page_rows),
                      task_images |-> db.task_images]]
        ELSE [raised |-> TRUE, ret |-> NoneStr, db |-> db]

---------------------------------------------------------------------------
(* HistoryService.delete_record *)

\* the listings left when the entries are removed one after the other in
\* the order of the listing
Suffixes(listing) ==
    {SubSeq(listing, k, Len(listing)) : k \in 1..(Len(listing) + 1)}

\* shutil.rmtree(task_dir): the directory is gone, or an exception is
\* raised and the directory is left with the entries not yet removed
RmtreeOutcomes(entry) ==
    IF entry.kind = "unreadable_dir" THEN {entry}
    ELSE {AbsentEntry} \cup {DirEntry(l) : l \in Suffixes(entry.listing)}

\* WithoutRecord with a fault: the rows of the record are not deleted
WithoutRecord_Keep(rows, record_id) == rows

\* cascade='all, delete-orphan': the rows of the record are deleted with it
WithoutRecord(rows, record_id) == {r \in rows : r.record_id # record_id}

\* The call, given what rmtree leaves of the task directory (left) and
\* whether the commit succeeds: what it returns, the database and the
\* history root it leaves, and whether it logged the removal of the
\* directory or its failure.
delete_record(db, root, record_id, left, commit_ok) ==
    IF record_id \notin DOMAIN db.history_records
    THEN [ret |-> FALSE, db |-> db, root |-> root, rmtree |-> "not_called"]
    ELSE
    LET record == db.history_records[record_id]
        has_dir == /\ TruthyStr(record.task_id)
                   /\ record.task_id \in DOMAIN root
                   /\ IsDir(root[record.task_id])
        new_root == IF has_dir THEN [root EXCEPT ![record.task_id] = left]
                    ELSE root
        rmtree == IF ~has_dir THEN "not_called"
                  ELSE IF left = AbsentEntry THEN "removed" ELSE "failed"
        new_db ==
            [history_records |->
                 [id \in DOMAIN db.history_records \ {record_id} |->
                     db.history_records[id]],
             outline_pages |-> WithoutRecord(db.outline_pages, record_id),
             task_images |-> WithoutRecord(db.task_images, record_id)]
    IN  IF commit_ok
        THEN [ret |-> TRUE, db |-> new_db, root |-> new_root, rmtree |-> rmtree]
        ELSE [ret |-> FALSE, db |-> db, root |-> new_root, rmtree |-> rmtree]

---------------------------------------------------------------------------
(* HistoryService.scan_and_sync_task_images *)

\* os.listdir(task_dir)
os_listdir(entry) == entry.listing

\* filename.startswith('thumb_')
StartsWithThumb(filename) == filename.thumb

\* EndsWithImageExt with a fault: filename.lower().endswith(...)
EndsWithImageExt_AnyCase(filename) ==
    filename.ext \in {".png", ".jpg", ".jpeg", ".PNG"}

\* filename.endswith(('.png', '.jpg', '.jpeg'))
EndsWithImageExt(filename) == filename.ext \in {".png", ".jpg", ".jpeg"}

IsScannedImage(filename) ==
    ~StartsWithThumb(filename) /\ EndsWithImageExt(filename)

\* the loop that fills image_files
ScanImages(listing) == SelectSeq(listing, IsScannedImage)

DefaultIndex == 999

\* get_index: int(filename.split('.')[0]), 999 when that raises
get_index(filename) ==
    IF ~filename.thumb /\ filename.numeric THEN filename.n ELSE DefaultIndex

\* list.sort(key=get_index) is stable: x goes after the last element whose
\* key is not greater
RECURSIVE InsertByIndex(_, _)
InsertByIndex(sorted, x) ==
    IF sorted = <<>> THEN <<x>>
    ELSE IF get_index(sorted[Len(sorted)]) <= get_index(x)
         THEN Append(sorted, x)
         ELSE Append(InsertByIndex(SubSeq(sorted, 1, Len(sorted) - 1), x),
                     sorted[Len(sorted)])

RECURSIVE SortByIndex(_)
SortByIndex(files) ==
    IF files = <<>> THEN <<>>
    ELSE InsertByIndex(SortByIndex(SubSeq(files, 1, Len(files) - 1)),
                       files[Len(files)])

\* RecordsOfTask with a fault: the filter on task_id is lost
RecordsOfTask_Any(records_table, task_id) == DOMAIN records_table

\* RecordsOfTask with a fault: the records linked to a task, whichever
RecordsOfTask_Linked(records_table, task_id) ==
    {id \in DOMAIN records_table : records_table[id].task_id # NoneStr}

\* HistoryRecord.query.filter_by(task_id=task_id)
RecordsOfTask(records_table, task_id) ==
    {id \in DOMAIN records_table : records_table[id].task_id = task_id}

\* first with a fault: a record that is not completed comes before a
\* completed one
first_Unfinished(records_table, ids) ==
    IF ids = {} THEN NoneStr
    ELSE LET open == {id \in ids : records_table[id].status # "completed"}
             from == IF open # {} THEN open ELSE ids
         IN  CHOOSE id \in from :
                 \A other \in from :
                     records_table[id].rowid <= records_table[other].rowid

\* .first() of a query without ORDER BY: SQLite returns the rows in the
\* order of their rowid; None when there is no row
first(records_table, ids) ==
    IF ids = {} THEN NoneStr
    ELSE CHOOSE id \in ids :
             \A other \in ids :
                 records_table[id].rowid <= records_table[other].rowid

\* CountReached with a fault: > instead of >=
CountReached_Strict(actual_count, expected_count) ==
    actual_count > expected_count

\* actual_count >= expected_count
CountReached(actual_count, expected_count) == actual_count >= expected_count

\* the status derived from the two counts
DeriveStatus(actual_count, expected_count) ==
    IF actual_count = 0 THEN "draft"
    ELSE IF CountReached(actual_count, expected_count) THEN "completed"
    ELSE "partial"

\* the arguments scan_and_sync_task_images passes to update_record
ScanImagesArg(task_id, image_files) ==
    [task_id |-> task_id, generated |-> image_files]

ScanThumbnailArg(image_files) ==
    IF image_files # <<>> THEN image_files[1] ELSE None

\* The call: the returned dict and the database it leaves.
scan_and_sync_task_images(db, entry, task_id, clock) ==
    IF ~IsDir(entry)
    THEN [ret |-> [success |-> FALSE, error |-> "task directory does not exist"],
          db |-> db]
    ELSE IF entry.kind = "unreadable_dir"
    THEN [ret |-> [success |-> FALSE, error |-> "scan failed"], db |-> db]
    ELSE
    LET image_files == SortByIndex(ScanImages(os_listdir(entry)))
        record_id == first(db.history_records,
                           RecordsOfTask(db.history_records, task_id))
    IN
    IF record_id # NoneStr
    THEN LET expected_count ==
                 Cardinality(PagesOf(db.outline_pages, record_id))
             actual_count == Len(image_files)
             status == DeriveStatus(actual_count, expected_count)
             updated == update_record(db, record_id, None,
                                      ScanImagesArg(task_id, image_files),
                                      status,
                                      ScanThumbnailArg(image_files), clock)
         IN  [ret |-> [success |-> TRUE,
                       record_id |-> record_id,
                       task_id |-> task_id,
                       images_count |-> Len(image_files),
                       images |-> image_files,
                       status |-> status],
              db |-> updated.db]
    ELSE [ret |-> [success |-> TRUE,
                   task_id |-> task_id,
                   images_count |-> Len(image_files),
                   images |-> image_files,
                   no_record |-> TRUE],
          db |-> db]

---------------------------------------------------------------------------
(* HistoryService.scan_all_tasks *)

\* os.path.isdir(item_path)
IsItemDir(entry) == entry.kind \in {"dir", "unreadable_dir"}

\* result.get("success")
IsSuccess(scan_result) == DictGet(scan_result, "success", FALSE)

\* IsSynced with a fault: an orphan is counted as synced too
IsSynced_CountsOrphans(scan_result) == IsSuccess(scan_result)

\* the branch synced_count += 1
IsSynced(scan_result) ==
    IsSuccess(scan_result) /\ ~DictGet(scan_result, "no_record", FALSE)

\* the branch orphan_tasks.append(task_id)
IsOrphan(scan_result) ==
    IsSuccess(scan_result) /\ DictGet(scan_result, "no_record", FALSE)

\* the branch failed_count += 1
IsFailed(scan_result) == ~IsSuccess(scan_result)

\* the state of the loop before its first iteration
ScanAllStart(db) ==
    [db |-> db,
     synced_count |-> 0,
     failed_count |-> 0,
     orphan_tasks |-> <<>>,
     results |-> <<>>]

\* the loop over the items os.listdir(self.history_dir) returned
RECURSIVE ScanAllLoop(_, _, _, _)
ScanAllLoop(acc, root, items, clock) ==
    IF items = <<>> THEN acc
    ELSE
    LET item == Head(items) IN
    IF ~IsItemDir(root[item])
    THEN ScanAllLoop(acc, root, Tail(items), clock)
    ELSE
    LET out == scan_and_sync_task_images(acc.db, root[item], item, clock)
        after ==
            [db |-> out.db,
             synced_count |->
                 acc.synced_count + (IF IsSynced(out.ret) THEN 1 ELSE 0),
             failed_count |->
                 acc.failed_count + (IF IsFailed(out.ret) THEN 1 ELSE 0),
             orphan_tasks |->
                 IF IsOrphan(out.ret) THEN Append(acc.orphan_tasks, item)
                 ELSE acc.orphan_tasks,
             results |-> Append(acc.results, out.ret)]
    IN  ScanAllLoop(after, root, Tail(items), clock)

\* The call, given the items in the order os.listdir() returned them.  The
\* history root exists: __init__ creates it.
scan_all_tasks(db, root, items, clock) ==
    LET acc == ScanAllLoop(ScanAllStart(db), root, items, clock)
    IN  [ret |-> [success |-> TRUE,
                  total_tasks |-> Len(acc.results),
                  synced |-> acc.synced_count,
                  failed |-> acc.failed_count,
                  orphan_tasks |-> acc.orphan_tasks,
                  results |-> acc.results],
         db |-> acc.db]

---------------------------------------------------------------------------
(* Provider configuration: the table provider_configs, the memo of         *)
(* backend/config.py and the handlers of backend/routes/config_routes.py.  *)
(* Of a row the columns model and extra_config are left out: they are      *)
(* copied in and out and never tested.                                     *)

Categories == {"text", "image"}

\* names a client can give a provider; the empty string is a legal JSON
\* object key
ProviderNames == {"", "openai", "gemini"}

\* JSON values of the member 'api_key' of a provider entry: the kind of
\* the value and its JSON text
JStr(s) == [t |-> "str", v |-> s]
JTrue == [t |-> "bool", v |-> "true"]
JFalse == [t |-> "bool", v |-> "false"]
JNum(numeral) == [t |-> "num", v |-> numeral]
JNull == [t |-> "null", v |-> "null"]

\* the number a bool is equal to in Python
BoolAsNumeral(b) == IF b = "true" THEN "1" ELSE "0"

\* Python's a == b on these values: True == 1 and False == 0
PyEq(a, b) ==
    IF a.t = b.t THEN a.v = b.v
    ELSE IF a.t = "bool" /\ b.t = "num" THEN b.v = BoolAsNumeral(a.v)
    ELSE IF a.t = "num" /\ b.t = "bool" THEN a.v = BoolAsNumeral(b.v)
    ELSE FALSE

\* [True, False, '', None]
KeepKeyValues == <<JTrue, JFalse, JStr(""), JNull>>

\* IsKeepKeyValue with a fault: only None keeps the stored key
IsKeepKeyValue_NoneOnly(api_key) == api_key.t = "null"

\* api_key in [True, False, '', None]
IsKeepKeyValue(api_key) ==
    \E i \in 1..Len(KeepKeyValues) : PyEq(api_key, KeepKeyValues[i])

\* what the Text column api_key holds once the value is bound: a str as it
\* is, a number as its numeral (SQLite's TEXT affinity)
BoundText(api_key) == api_key.v

\* the names of the rows of a category
NamesOf(table, category) ==
    {k[2] : k \in {key \in DOMAIN table : key[1] = category}}

\* ProviderConfig.query.filter_by(category=category, name=name).first()
Existing(table, category, name) ==
    IF <<category, name>> \in DOMAIN table THEN table[<<category, name>>]
    ELSE None

\* the dict built for one row: base_url only if truthy, None values
\* removed (provider_type is never None)
ProviderDict(row) ==
    LET api_key == IF TruthyStr(row.api_key) THEN row.api_key ELSE ""
    IN  IF TruthyStr(row.base_url)
        THEN [type |-> row.provider_type, api_key |-> api_key,
              base_url |-> row.base_url]
        ELSE [type |-> row.provider_type, api_key |-> api_key]

\* Config._get_providers_from_db and _get_config_from_db.  With several
\* active rows the name kept is that of the last row of the query, which
\* is any of them.
_get_providers_from_db(table, category) ==
    LET names == NamesOf(table, category)
        active == {n \in names : table[<<category, n>>].is_active}
    IN  [active_provider |-> IF active = {} THEN ""
                             ELSE CHOOSE n \in active : TRUE,
         providers |-> [n \in names |-> ProviderDict(table[<<category, n>>])]]

Raised == [raised |-> TRUE]

Returned(provider_name, provider_config) ==
    [raised |-> FALSE, provider_name |-> provider_name,
     ret |-> provider_config]

\* ['openai', 'openai_compatible', 'image_api']
BaseUrlTypes == {"openai", "openai_compatible", "image_api"}

\* provider_type in ['openai', 'openai_compatible', 'image_api']
NeedsBaseUrl(provider_type) == provider_type \in BaseUrlTypes

\* Config.get_text_provider_config(None) on the loaded configuration
get_text_provider_config(config) ==
    LET provider_name == DictGet(config, "active_provider", "")
        providers == DictGet(config, "providers", <<>>)
    IN  IF DOMAIN providers = {} THEN Raised
        ELSE IF provider_name \notin DOMAIN providers THEN Raised
        ELSE IF ~TruthyStr(DictGet(providers[provider_name], "api_key",
                                   NoneStr))
        THEN Raised
        ELSE Returned(provider_name, providers[provider_name])

\* Config.get_image_provider_config(None) on the loaded configuration
get_image_provider_config(config) ==
    LET provider_name == DictGet(config, "active_provider", "")
        providers == DictGet(config, "providers", <<>>)
    IN  IF DOMAIN providers = {} THEN Raised
        ELSE IF provider_name \notin DOMAIN providers THEN Raised
        ELSE LET provider_config == providers[provider_name]
             IN  IF ~TruthyStr(DictGet(provider_config, "api_key", NoneStr))
                 THEN Raised
                 ELSE IF /\ NeedsBaseUrl(DictGet(provider_config, "type",
                                                 provider_name))
                         /\ ~TruthyStr(DictGet(provider_config, "base_url",
                                               NoneStr))
                 THEN Raised
                 ELSE Returned(provider_name, provider_config)

\* DeactivateCategory with a fault: the other rows stay as they are
DeactivateCategory_Keep(table, category) == table

\* ProviderConfig.query.filter_by(category=category)
\*     .update({'is_active': False})
DeactivateCategory(table, category) ==
    [k \in DOMAIN table |->
        IF k[1] = category THEN [table[k] EXCEPT !.is_active = FALSE]
        ELSE table[k]]

\* ProviderConfig.query.filter_by(category=category, name=new_active)
\*     .update({'is_active': True})
ActivateProvider(table, category, new_active) ==
    [k \in DOMAIN table |->
        IF k = <<category, new_active>>
        THEN [table[k] EXCEPT !.is_active = TRUE]
        ELSE table[k]]

\* the key written for one entry of 'providers'
NewApiKey(existing, provider_config) ==
    LET api_key == DictGet(provider_config, "api_key", JNull)
    IN  IF IsKeepKeyValue(api_key)
        THEN IF existing # None /\ TruthyStr(existing.api_key)
             THEN existing.api_key
             ELSE ""
        ELSE BoundText(api_key)

\* the row an entry of 'providers' is stored as, updated or created
ProviderRow(existing, name, provider_config, new_active) ==
    [provider_type |-> DictGet(provider_config, "type", ""),
     api_key |-> NewApiKey(existing, provider_config),
     base_url |-> DictGet(provider_config, "base_url", NoneStr),
     is_active |-> (name = new_active)]

\* the loop over new_providers.items() and the delete of the rows of the
\* category whose name is not a key of new_providers
ReplaceProviders(table, category, new_providers, new_active) ==
    LET kept == {k \in DOMAIN table : k[1] # category}
        written == {<<category, n>> : n \in DOMAIN new_providers}
    IN  [k \in kept \cup written |->
            IF k \in written
            THEN ProviderRow(Existing(table, k[1], k[2]), k[2],
                             new_providers[k[2]], new_active)
            ELSE table[k]]

\* provider_type is nullable=False
ProviderTypeNotNull(table) ==
    \A k \in DOMAIN table : table[k].provider_type # NoneStr

\* _update_provider_config_in_db: the table after the commit, or the
\* exception of a commit that violates NOT NULL, which leaves the table
\* as it was
_update_provider_config_in_db(table, category, new_data) ==
    LET new_active == DictGet(new_data, "active_provider", "")
        activated == IF TruthyStr(new_active)
                     THEN ActivateProvider(
                              DeactivateCategory(table, category),
                              category, new_active)
                     ELSE table
        replaced == IF "providers" \in DOMAIN new_data
                    THEN ReplaceProviders(activated, category,
                                          new_data.providers, new_active)
                    ELSE activated
    IN  IF ProviderTypeNotNull(replaced)
        THEN [raised |-> FALSE, table |-> replaced]
        ELSE [raised |-> TRUE, table |-> table]

\* the rows migrate_provider_configs adds for one YAML file
MigratedRows(category, yaml_config, default_type) ==
    LET active_provider == DictGet(yaml_config, "active_provider", "")
        providers == DictGet(yaml_config, "providers", <<>>)
    IN  [k \in {<<category, n>> : n \in DOMAIN providers} |->
            [provider_type |-> DictGet(providers[k[2]], "type", default_type),
             api_key |-> DictGet(providers[k[2]], "api_key", ""),
             base_url |-> DictGet(providers[k[2]], "base_url", NoneStr),
             is_active |-> (k[2] = active_provider)]]

\* a YAML file that does not exist
NoFile == [exists |-> FALSE]

\* migrate_provider_configs: nothing if the table has rows, else the rows
\* of text_providers.yaml and of image_providers.yaml, each file that
\* exists
migrate_provider_configs(table, text_file, image_file) ==
    IF DOMAIN table # {} THEN table
    ELSE LET text_rows == IF text_file # NoFile
                          THEN MigratedRows("text", text_file,
                                            "openai_compatible")
                          ELSE <<>>
             image_rows == IF image_file # NoFile
                           THEN MigratedRows("image", image_file,
                                             "google_genai")
                           ELSE <<>>
         IN  [k \in DOMAIN text_rows \cup DOMAIN image_rows |->
                 IF k \in DOMAIN text_rows THEN text_rows[k]
                 ELSE image_rows[k]]

---------------------------------------------------------------------------
(* Provider configuration as a state machine.  POST /config commits the    *)
(* image part, commits the text part and then clears the memo; a           *)
(* concurrent request can run between two of these steps, so each is a     *)
(* step of its own.  The two members of the request body are drawn when    *)
(* the handler reaches them: nothing else reads the body.                  *)

\* entries of a 'providers' map
FullEntry(api_key) ==
    [type |-> "openai", api_key |-> api_key, base_url |-> "url"]

NoKeyEntry == [type |-> "openai", base_url |-> "url"]

NoUrlEntry(api_key) == [type |-> "image_api", api_key |-> api_key]

GenaiEntry(api_key) == [type |-> "google_genai", api_key |-> api_key]

NullTypeEntry == [type |-> NoneStr, api_key |-> JStr("k1")]

\* a request body without the member
NoPart == [absent |-> TRUE]

\* values of data['image_generation']
ImageParts ==
    {NoPart,
     [active_provider |-> "openai",
      providers |-> ("openai" :> FullEntry(JStr("k1")))
                    @@ ("gemini" :> GenaiEntry(JStr("k2")))],
     [active_provider |-> "gemini"],
     [providers |-> ("openai" :> NoKeyEntry) @@ ("gemini" :> GenaiEntry(JTrue))],
     [active_provider |-> "openai",
      providers |-> ("openai" :> NoUrlEntry(JFalse))],
     [active_provider |-> "gemini",
      providers |-> ("" :> FullEntry(JStr("k2")))],
     [active_provider |-> "gemini",
      providers |-> ("openai" :> FullEntry(JStr("")))
                    @@ ("gemini" :> GenaiEntry(JNum("5")))],
     [providers |-> ("openai" :> FullEntry(JNull))
                    @@ ("gemini" :> GenaiEntry(JNum("1")))],
     [providers |-> ("openai" :> NullTypeEntry)],
     [providers |-> <<>>]}

\* values of data['text_generation']
TextParts ==
    {NoPart,
     [active_provider |-> "gemini",
      providers |-> ("openai" :> FullEntry(JStr("k1")))
                    @@ ("gemini" :> GenaiEntry(JStr("k2")))],
     [providers |-> ("gemini" :> NullTypeEntry)]}

\* text_providers.yaml and image_providers.yaml as yaml.safe_load gives them
YamlFiles ==
    {NoFile,
     [active_provider |-> "openai",
      providers |-> ("openai" :> [api_key |-> "k1", base_url |-> "url"])
                    @@ ("gemini" :> [type |-> "google_genai"])]}

\* no load_*_providers_config call is under way
NotLoading == [loading |-> FALSE]

ConfigIdle ==
    /\ provider_configs = <<>>
    /\ providers_config = [c \in Categories |-> None]
    /\ load_pc = NotLoading
    /\ config_pc = "boot"
    /\ config_result = NoCall

\* check_and_migrate in create_app, before any request is served
Migrate(text_file, image_file) ==
    /\ config_pc = "boot"
    /\ provider_configs' =
          migrate_provider_configs(provider_configs, text_file, image_file)
    /\ config_pc' = "idle"
    /\ config_result' = [op |-> "migrate_provider_configs"]
    /\ UNCHANGED <<providers_config, load_pc>>

\* the part of update_config for one member of the body: an exception
\* ends the request with status 500 and the memo is not cleared
UpdateConfigPart(category, new_data, from, to) ==
    /\ config_pc = from
    /\ LET r == IF new_data = NoPart
                THEN [raised |-> FALSE, table |-> provider_configs]
                ELSE _update_provider_config_in_db(provider_configs,
                                                   category, new_data)
       IN  /\ provider_configs' = r.table
           /\ config_pc' = IF r.raised THEN "idle" ELSE to
           /\ config_result' =
                 IF new_data = NoPart THEN NoCall
                 ELSE [op |-> "_update_provider_config_in_db",
                       category |-> category, raised |-> r.raised]
    /\ UNCHANGED <<providers_config, load_pc>>

\* update_config up to the commit of the image part
UpdateConfigImage(new_data) ==
    UpdateConfigPart("image", new_data, "idle", "text")

\* update_config from there up to the commit of the text part
UpdateConfigText(new_data) ==
    UpdateConfigPart("text", new_data, "text", "clear")

\* Config.reload_config
reload_config == [c \in Categories |-> None]

\* update_config from there to its return: _clear_config_cache
ClearConfigCache ==
    /\ config_pc = "clear"
    /\ providers_config' = reload_config
    /\ config_pc' = "idle"
    /\ config_result' = [op |-> "update_config", success |-> TRUE]
    /\ UNCHANGED <<provider_configs, load_pc>>

\* load_text_providers_config / load_image_providers_config of a
\* concurrent request, up to the query: the memo is None and the rows are
\* read
LoadQuery(category) ==
    /\ config_pc # "boot"
    /\ load_pc = NotLoading
    /\ providers_config[category] = None
    /\ load_pc' = [category |-> category,
                   config |-> _get_providers_from_db(provider_configs,
                                                     category)]
    /\ config_result' = NoCall
    /\ UNCHANGED <<provider_configs, providers_config, config_pc>>

\* ... and from there to its return: the memo is assigned
LoadStore ==
    /\ load_pc # NotLoading
    /\ providers_config' =
          [providers_config EXCEPT ![load_pc.category] = load_pc.config]
    /\ load_pc' = NotLoading
    /\ config_result' = NoCall
    /\ UNCHANGED <<provider_configs, config_pc>>

\* what load_*_providers_config returns when it runs without interruption
LoadedConfig(category) ==
    IF providers_config[category] # None THEN providers_config[category]
    ELSE _get_providers_from_db(provider_configs, category)

\* Config.get_text_provider_config() / Config.get_image_provider_config()
GetProviderConfig(category) ==
    /\ config_pc # "boot"
    /\ LET config == LoadedConfig(category)
       IN  /\ providers_config' = [providers_config EXCEPT ![category] = config]
           /\ config_result' =
                 [op |-> "get_provider_config", category |-> category,
                  call |-> IF category = "text"
                           THEN get_text_provider_config(config)
                           ELSE get_image_provider_config(config)]
    /\ UNCHANGED <<provider_configs, load_pc, config_pc>>

---------------------------------------------------------------------------
(* The history service as a state machine *)

\* arguments of the calls
Topics == {"topic"}

PageDict(index, type, content) ==
    [index |-> index, type |-> type, content |-> content]

\* an outline as generate_outline returns it: the raw text and its pages
OutlineOf(text) == [raw |-> text, pages |-> _parse_outline(text)]

\* an outline sent by a client with the same index on two pages
DuplicateIndexOutline ==
    [raw |-> <<ORDINARY>>,
     pages |-> <<PageDict(0, "cover", <<ORDINARY>>),
                 PageDict(0, "content", <<ORDINARY>>)>>]

OutlineArgs ==
    {OutlineOf(<<>>),
     OutlineOf(<<ORDINARY, PAGE_LOWER, ORDINARY, PAGE_LOWER, ORDINARY>>),
     DuplicateIndexOutline}

TaskIdArgs == TaskIds \cup {NoneStr}

\* the calls of update_record made while images are generated: the record
\* is marked as generating
UpdateArgs ==
    {[outline |-> None, images |-> None, status |-> "generating",
      thumbnail |-> None]}

HistoryInit ==
    /\ history_records = <<>>
    /\ outline_pages = {}
    /\ task_images = {}
    /\ history_dir = [t \in TaskIds |-> AbsentEntry]
    /\ now = 0
    /\ result = NoCall

SetDb(db) ==
    /\ history_records' = db.history_records
    /\ outline_pages' = db.outline_pages
    /\ task_images' = db.task_images

CreateRecord(topic, outline, task_id) ==
    \E record_id \in RecordIds \ DOMAIN history_records :
        LET out == create_record(Db, record_id, topic, outline, task_id, now)
        IN  /\ NextRowid(history_records) <= MaxRowid
            /\ SetDb(out.db)
            /\ result' = [op |-> "create_record",
                          raised |-> out.raised,
                          ret |-> out.ret]
            /\ UNCHANGED <<history_dir, now>>

UpdateRecord(record_id, outline, images, status, thumbnail) ==
    LET out == update_record(Db, record_id, outline, images, status,
                             thumbnail, now)
    IN  /\ SetDb(out.db)
        /\ result' = [op |-> "update_record",
                      record_id |-> record_id,
                      ret |-> out.ret]
        /\ UNCHANGED <<history_dir, now>>

ScanAndSync(task_id) ==
    LET out == scan_and_sync_task_images(Db, history_dir[task_id], task_id, now)
    IN  /\ SetDb(out.db)
        /\ result' = [op |-> "scan_and_sync_task_images",
                      task_id |-> task_id,
                      ret |-> out.ret]
        /\ UNCHANGED <<history_dir, now>>

\* the entry of the task directory of a record, when it has one
LinkedEntry(records_table, root, record_id) ==
    IF /\ record_id \in DOMAIN records_table
       /\ records_table[record_id].task_id \in DOMAIN root
    THEN root[records_table[record_id].task_id]
    ELSE AbsentEntry

\* the call, over what rmtree can leave of the task directory; whether
\* the commit succeeds is up to the database
DeleteRecord(record_id, commit_ok) ==
    \E left \in RmtreeOutcomes(LinkedEntry(history_records, history_dir,
                                            record_id)) :
        LET out == delete_record(Db, history_dir, record_id, left, commit_ok)
        IN  /\ SetDb(out.db)
            /\ history_dir' = out.root
            /\ result' = [op |-> "delete_record",
                          record_id |-> record_id,
                          ret |-> out.ret,
                          rmtree |-> out.rmtree]
            /\ UNCHANGED now

\* the names of the entries of the history root
RootItems(root) == {t \in DOMAIN root : root[t].kind # "absent"}

\* the orders in which a listing can return the elements of a set
RECURSIVE Orders(_)
Orders(set) ==
    IF set = {} THEN {<<>>}
    ELSE UNION {{<<x>> \o l : l \in Orders(set \ {x})} : x \in set}

\* the order of the entries of the root is not tracked: any order
ScanAllTasks ==
    \E items \in Orders(RootItems(history_dir)) :
        LET out == scan_all_tasks(Db, history_dir, items, now)
        IN  /\ SetDb(out.db)
            /\ result' = [op |-> "scan_all_tasks", ret |-> out.ret]
            /\ UNCHANGED <<history_dir, now>>

\* the image generator creates the task directory
MakeTaskDir(task_id) ==
    /\ history_dir[task_id].kind = "absent"
    /\ history_dir' = [history_dir EXCEPT ![task_id] = DirEntry(<<>>)]
    /\ result' = NoCall
    /\ UNCHANGED <<db_vars, now>>

\* the image generator writes the image of the next page, "{index}.png";
\* the file system lists the newest name first
WriteImage(task_id) ==
    /\ history_dir[task_id].kind = "dir"
    /\ Len(history_dir[task_id].listing) < MaxFiles
    /\ history_dir' =
          [history_dir EXCEPT ![task_id].listing = <<PageImage(Len(@))>> \o @]
    /\ result' = NoCall
    /\ UNCHANGED <<db_vars, now>>

\* the image of the last page is removed, to be generated again
RemoveImage(task_id) ==
    /\ history_dir[task_id].kind = "dir"
    /\ history_dir[task_id].listing # <<>>
    /\ history_dir' = [history_dir EXCEPT ![task_id].listing = Tail(@)]
    /\ result' = NoCall
    /\ UNCHANGED <<db_vars, now>>

ParseIdle ==
    /\ outline_text = <<>>
    /\ parse_result = NotCalled
    /\ generate_result = NotGenerated
    /\ client_outcome = NotGenerated

Init == ParseIdle /\ HistoryInit /\ ConfigIdle

Next ==
    \/ \E topic \in Topics, outline \in OutlineArgs, task_id \in TaskIdArgs :
          CreateRecord(topic, outline, task_id) /\ UNCHANGED <<parse_vars, config_vars>>
    \/ \E record_id \in RecordIds, args \in UpdateArgs :
          UpdateRecord(record_id, args.outline, args.images, args.status,
                       args.thumbnail) /\ UNCHANGED <<parse_vars, config_vars>>
    \/ \E task_id \in TaskIds : ScanAndSync(task_id) /\ UNCHANGED <<parse_vars, config_vars>>
    \/ \E task_id \in TaskIds : MakeTaskDir(task_id) /\ UNCHANGED <<parse_vars, config_vars>>
    \/ \E task_id \in TaskIds : WriteImage(task_id) /\ UNCHANGED <<parse_vars, config_vars>>
    \/ \E task_id \in TaskIds : RemoveImage(task_id) /\ UNCHANGED <<parse_vars, config_vars>>

Spec == Init /\ [][Next]_vars

---------------------------------------------------------------------------
(* The reconciler on arbitrary task directories: the history root holds    *)
(* any entries when the service starts, and they are not changed while the *)
(* records are created and reconciled                                      *)

MaxScanFiles == 2    \* most names in a task directory the service finds

\* names a task directory can hold: "0.png", "1.jpeg", "1000.jpg", "a.png",
\* "b.jpg", "thumb_0.png", "0.PNG", "0.txt"
ScanFileNames ==
    {FileName(FALSE, TRUE, 0, ".png"),
     FileName(FALSE, TRUE, 1, ".jpeg"),
     FileName(FALSE, TRUE, 1000, ".jpg"),
     FileName(FALSE, FALSE, 1, ".png"),
     FileName(FALSE, FALSE, 2, ".jpg"),
     FileName(TRUE, TRUE, 0, ".png"),
     FileName(FALSE, TRUE, 0, ".PNG"),
     FileName(FALSE, TRUE, 0, ".txt")}

\* the listings of a directory of at most MaxScanFiles names
ScanListings ==
    {l \in UNION {[1..n -> ScanFileNames] : n \in 0..MaxScanFiles} :
        \A i, j \in DOMAIN l : l[i] = l[j] => i = j}

\* what the entry of the first task can be
ScanEntries ==
    {AbsentEntry, FileEntry, UnreadableDirEntry(<<>>)}
        \cup {DirEntry(l) : l \in ScanListings}

\* what the entry of the other task can be
OtherEntries ==
    {AbsentEntry, FileEntry, UnreadableDirEntry(<<>>),
     DirEntry(<<PageImage(0)>>)}

\* the outlines of the records: two pages
ScanOutlineArgs == {OutlineOf(<<ORDINARY, PAGE_LOWER, ORDINARY>>)}

ScanInit ==
    /\ ParseIdle
    /\ ConfigIdle
    /\ history_records = <<>>
    /\ outline_pages = {}
    /\ task_images = {}
    /\ \E first_entry \in ScanEntries, other_entry \in OtherEntries :
          history_dir = [t \in TaskIds |->
                            IF t = "t1" THEN first_entry ELSE other_entry]
    /\ now = 0
    /\ result = NoCall

ScanNext ==
    \/ \E topic \in Topics, outline \in ScanOutlineArgs,
          task_id \in TaskIdArgs :
          CreateRecord(topic, outline, task_id) /\ UNCHANGED <<parse_vars, config_vars>>
    \/ \E task_id \in TaskIds : ScanAndSync(task_id) /\ UNCHANGED <<parse_vars, config_vars>>
    \/ ScanAllTasks /\ UNCHANGED <<parse_vars, config_vars>>

ScanSpec == ScanInit /\ [][ScanNext]_vars

---------------------------------------------------------------------------
(* Records created, updated and deleted by the clients of the service *)

CrudTopics == {"topic", NoneStr}

CrudOutlineArgs ==
    {OutlineOf(<<ORDINARY, PAGE_LOWER, ORDINARY>>), DuplicateIndexOutline}

\* a list of generated images with an entry that is None
NullFilenames == <<PageImage(0), None, PageImage(2)>>

\* the calls of update_record
CrudUpdateArgs ==
    {[outline |-> None,
      images |-> [task_id |-> "t1", generated |-> NullFilenames],
      status |-> NoneStr, thumbnail |-> None],
     [outline |-> None,
      images |-> [task_id |-> "t2", generated |-> <<>>],
      status |-> NoneStr, thumbnail |-> None],
     [outline |-> None,
      images |-> [task_id |-> "t1",
                  generated |-> <<PageImage(1), PageImage(0)>>],
      status |-> NoneStr, thumbnail |-> None],
     [outline |-> OutlineOf(<<SUMMARY_CN>>),
      images |-> None,
      status |-> "completed", thumbnail |-> PageImage(0)],
     [outline |-> DuplicateIndexOutline,
      images |-> [generated |-> <<PageImage(0)>>],
      status |-> "partial", thumbnail |-> PageImage(1)],
     [outline |-> OutlineOf(<<>>),
      images |-> None,
      status |-> NoneStr, thumbnail |-> None]}

\* what the entries of the two tasks can be when the service starts
CrudFirstEntries ==
    {AbsentEntry, FileEntry, DirEntry(<<PageImage(0), PageImage(1)>>)}

CrudOtherEntries == {DirEntry(<<>>)}

CrudInit ==
    /\ ParseIdle
    /\ ConfigIdle
    /\ history_records = <<>>
    /\ outline_pages = {}
    /\ task_images = {}
    /\ \E first_entry \in CrudFirstEntries, other_entry \in CrudOtherEntries :
          history_dir = [t \in TaskIds |->
                            IF t = "t1" THEN first_entry ELSE other_entry]
    /\ now = 0
    /\ result = NoCall

CrudNext ==
    \/ \E topic \in CrudTopics, outline \in CrudOutlineArgs,
          task_id \in TaskIdArgs :
          CreateRecord(topic, outline, task_id) /\ UNCHANGED <<parse_vars, config_vars>>
    \/ \E record_id \in RecordIds, args \in CrudUpdateArgs :
          UpdateRecord(record_id, args.outline, args.images, args.status,
                       args.thumbnail) /\ UNCHANGED <<parse_vars, config_vars>>
    \/ \E record_id \in RecordIds, commit_ok \in BOOLEAN :
          DeleteRecord(record_id, commit_ok) /\ UNCHANGED <<parse_vars, config_vars>>

CrudSpec == CrudInit /\ [][CrudNext]_vars

---------------------------------------------------------------------------
(* The history service under a clock that advances: records are created,  *)
(* updated and synchronised at different times                             *)

\* datetime.utcnow() returns a later time than before
Tick ==
    /\ now < MaxClock
    /\ now' = now + 1
    /\ result' = NoCall
    /\ UNCHANGED <<db_vars, history_dir>>

ClockOutlineArgs == {OutlineOf(<<ORDINARY, PAGE_LOWER, ORDINARY>>)}

\* calls of update_record: one that changes the status, one that links the
\* record to task t1, one whose commit fails
ClockUpdateArgs ==
    {[outline |-> None, images |-> None, status |-> "generating",
      thumbnail |-> None],
     [outline |-> None,
      images |-> [task_id |-> "t1", generated |-> <<PageImage(0)>>],
      status |-> NoneStr, thumbnail |-> None],
     [outline |-> DuplicateIndexOutline, images |-> None,
      status |-> "completed", thumbnail |-> None]}

ClockInit == CrudInit

ClockNext ==
    \/ \E outline \in ClockOutlineArgs, task_id \in TaskIdArgs :
          CreateRecord("topic", outline, task_id)
              /\ UNCHANGED <<parse_vars, config_vars>>
    \/ \E record_id \in RecordIds, args \in ClockUpdateArgs :
          UpdateRecord(record_id, args.outline, args.images, args.status,
                       args.thumbnail)
              /\ UNCHANGED <<parse_vars, config_vars>>
    \/ \E task_id \in TaskIds :
          ScanAndSync(task_id) /\ UNCHANGED <<parse_vars, config_vars>>
    \/ Tick /\ UNCHANGED <<parse_vars, config_vars>>

ClockSpec == ClockInit /\ [][ClockNext]_vars

---------------------------------------------------------------------------
(* The specification of the provider configuration *)

ConfigInit == ParseIdle /\ HistoryInit /\ ConfigIdle

ConfigNext ==
    \/ \E text_file \in YamlFiles, image_file \in YamlFiles :
          Migrate(text_file, image_file) /\ UNCHANGED <<parse_vars, history_vars>>
    \/ \E new_data \in ImageParts :
          UpdateConfigImage(new_data) /\ UNCHANGED <<parse_vars, history_vars>>
    \/ \E new_data \in TextParts :
          UpdateConfigText(new_data) /\ UNCHANGED <<parse_vars, history_vars>>
    \/ ClearConfigCache /\ UNCHANGED <<parse_vars, history_vars>>
    \/ \E category \in Categories :
          GetProviderConfig(category) /\ UNCHANGED <<parse_vars, history_vars>>

ConfigSpec == ConfigInit /\ [][ConfigNext]_vars

---------------------------------------------------------------------------
(* The specification of the memo: requests that load the configuration    *)
(* run beside POST /config                                                 *)

\* values of data['image_generation']
MemoImageParts ==
    {NoPart,
     [active_provider |-> "openai",
      providers |-> ("openai" :> FullEntry(JStr("k1")))
                    @@ ("gemini" :> GenaiEntry(JStr("k2")))],
     [active_provider |-> "gemini"]}

\* values of data['text_generation']
MemoTextParts ==
    {NoPart,
     [active_provider |-> "gemini",
      providers |-> ("gemini" :> GenaiEntry(JStr("k2")))],
     [providers |-> ("gemini" :> NullTypeEntry)]}

MemoInit == ConfigInit

MemoNext ==
    \/ \E text_file \in YamlFiles, image_file \in YamlFiles :
          Migrate(text_file, image_file) /\ UNCHANGED <<parse_vars, history_vars>>
    \/ \E new_data \in MemoImageParts :
          UpdateConfigImage(new_data) /\ UNCHANGED <<parse_vars, history_vars>>
    \/ \E new_data \in MemoTextParts :
          UpdateConfigText(new_data) /\ UNCHANGED <<parse_vars, history_vars>>
    \/ ClearConfigCache /\ UNCHANGED <<parse_vars, history_vars>>
    \/ \E category \in Categories :
          LoadQuery(category) /\ UNCHANGED <<parse_vars, history_vars>>
    \/ LoadStore /\ UNCHANGED <<parse_vars, history_vars>>
    \/ \E category \in Categories :
          GetProviderConfig(category) /\ UNCHANGED <<parse_vars, history_vars>>

MemoSpec == MemoInit /\ [][MemoNext]_vars

---------------------------------------------------------------------------
(* The parser as a state machine: one call on an arbitrary text *)

ParseInit ==
    /\ outline_text \in Texts
    /\ parse_result = NotCalled
    /\ generate_result = NotGenerated
    /\ client_outcome = NotGenerated
    /\ HistoryInit
    /\ ConfigIdle

ParseOutline ==
    /\ parse_result = NotCalled
    /\ parse_result' = _parse_outline(outline_text)
    /\ UNCHANGED <<outline_text, generate_result, client_outcome, history_vars,
                   config_vars>>

ParseNext == ParseOutline

ParseSpec == ParseInit /\ [][ParseNext]_vars

---------------------------------------------------------------------------
(* generate_outline: the call of the text provider, the parse of what it   *)
(* returns and the classification of a failure.  An error text is a        *)
(* sequence of words: the markers the classification looks for, in lower  *)
(* case and in another letter case, and an ordinary word.                  *)

\* the markers looked for in error_msg.lower()
LowerMarkers == {"api_key", "unauthorized", "model", "timeout", "rate", "quota"}

\* the markers looked for in error_msg itself; "lianjie" is the Chinese
\* word for "connection"
ExactMarkers == {"401", "404", "lianjie", "429"}

ErrorWords ==
    LowerMarkers \cup ExactMarkers \cup {"oops"}

\* a word as the error text spells it: a marker of LowerMarkers can be in
\* another letter case (cased), which str.lower() undoes
AllErrorWords ==
    [cased : BOOLEAN, word : ErrorWords] \
        [cased : {TRUE}, word : ExactMarkers \cup {"oops"}]

ErrorTexts == UNION {[1..n -> AllErrorWords] : n \in 0..MaxErrorLen}

\* str.lower()
Lower(error_msg) ==
    [i \in 1..Len(error_msg) |-> [error_msg[i] EXCEPT !.cased = FALSE]]

\* marker in error_msg
HasWord(error_msg, marker) ==
    \E i \in 1..Len(error_msg) :
        error_msg[i] = [cased |-> FALSE, word |-> marker]

\* the branch of the classification that is taken
ErrorType(error_msg) ==
    IF \/ HasWord(Lower(error_msg), "api_key")
       \/ HasWord(Lower(error_msg), "unauthorized")
       \/ HasWord(error_msg, "401")
    THEN "authentication"
    ELSE IF HasWord(Lower(error_msg), "model") \/ HasWord(error_msg, "404")
    THEN "model"
    ELSE IF HasWord(Lower(error_msg), "timeout")
            \/ HasWord(error_msg, "lianjie")
    THEN "network"
    ELSE IF \/ HasWord(Lower(error_msg), "rate")
            \/ HasWord(error_msg, "429")
            \/ HasWord(Lower(error_msg), "quota")
    THEN "quota"
    ELSE "unknown"

\* the fixed words of a message
Fixed(text) == [fixed |-> text]

\* DetailedError with a fault: the generic branch leaves the error out
DetailedError_GenericHidesError(error_type, error_msg) ==
    IF error_type = "unknown"
    THEN <<Fixed("unknown"), Fixed("details:"), Fixed("advice")>>
    ELSE <<Fixed(error_type), Fixed("details:")>> \o error_msg
             \o <<Fixed("advice")>>

\* detailed_error: the heading of the branch, "cuowu xiangqing: " and the
\* error text, the causes and the advice
DetailedError(error_type, error_msg) ==
    <<Fixed(error_type), Fixed("details:")>> \o error_msg
        \o <<Fixed("advice")>>

\* what self.client.generate_text does: it returns a text, returns None or
\* raises
ReturnsText(text) == [raises |-> FALSE, text |-> text]

RaisesError(error_msg) == [raises |-> TRUE, error_msg |-> error_msg]

\* the value None returned in place of a text
NoText == <<NoneStr>>

\* str(e) of the TypeError of '<page>' in None
TypeErrorText == <<[cased |-> FALSE, word |-> "oops"]>>

ProviderTexts ==
    {<<>>, <<WS>>, <<ORDINARY>>, <<ORDINARY, PAGE_LOWER, ORDINARY>>,
     <<LBRACKET, COVER_CN, RBRACKET, HYPHEN, HYPHEN, HYPHEN, ORDINARY>>}

ProviderOutcomes ==
    {ReturnsText(text) : text \in ProviderTexts \cup {NoText}}
        \cup {RaisesError(error_msg) : error_msg \in ErrorTexts}

\* the except branch
OutlineFailure(error_msg) ==
    [success |-> FALSE,
     error |-> DetailedError(ErrorType(error_msg), error_msg)]

\* OutlineService.generate_outline
generate_outline(has_images, outcome) ==
    IF outcome.raises THEN OutlineFailure(outcome.error_msg)
    ELSE IF outcome.text = NoText THEN OutlineFailure(TypeErrorText)
    ELSE [success |-> TRUE,
          outline |-> outcome.text,
          pages |-> _parse_outline(outcome.text),
          has_images |-> has_images]

\* one call: generate_outline keeps no state between calls
GenerateOutline(has_images, outcome) ==
    /\ generate_result = NotGenerated
    /\ generate_result' = generate_outline(has_images, outcome)
    /\ client_outcome' = outcome
    /\ outline_text' = IF outcome.raises THEN <<>> ELSE outcome.text
    /\ UNCHANGED <<parse_result, history_vars, config_vars>>

GenerateInit == ParseIdle /\ HistoryInit /\ ConfigIdle

GenerateNext ==
    \E has_images \in BOOLEAN, outcome \in ProviderOutcomes :
        GenerateOutline(has_images, outcome)

GenerateSpec == GenerateInit /\ [][GenerateNext]_vars

---------------------------------------------------------------------------
(* Properties of _parse_outline *)

Parsed == parse_result # NotCalled

PageTypes == {"cover", "content", "summary"}

ContainsAnyCasePageMarker(text) ==
    \E i \in 1..Len(text) : MatchesPagePattern(text[i])

IsBlank(s) == \A i \in 1..Len(s) : s[i] = WS

NotBlank(s) == ~IsBlank(s)

CountIn(s, c) == Cardinality({i \in 1..Len(s) : s[i] = c})

\* c is s without its leading and trailing whitespace
IsTrimOf(c, s) ==
    /\ c # <<>>
    /\ c[1] # WS
    /\ c[Len(c)] # WS
    /\ \E i \in 1..Len(s) :
          /\ i + Len(c) - 1 <= Len(s)
          /\ SubSeq(s, i, i + Len(c) - 1) = c
          /\ \A k \in 1..Len(s) : (k < i \/ k > i + Len(c) - 1) => s[k] = WS

\* the page contents, one after the other
RECURSIVE Flatten(_)
Flatten(ss) == IF ss = <<>> THEN <<>> ELSE Head(ss) \o Flatten(Tail(ss))

Contents(pages) == [i \in 1..Len(pages) |-> pages[i].content]

IsNotWs(c) == c # WS

IsNotPageMarker(c) == ~MatchesPagePattern(c)

\* the text is cut at page markers and nowhere else: no content holds a
\* marker, and every other non-blank lexeme of the text, hyphens
\* included, is in the contents, in order
SplitOnlyOnPageMarker(text, pages) ==
    /\ \A i \in 1..Len(pages) : ~ContainsAnyCasePageMarker(pages[i].content)
    /\ SelectSeq(Flatten(Contents(pages)), IsNotWs)
         = SelectSeq(SelectSeq(text, IsNotPageMarker), IsNotWs)
    /\ Len(pages) <= 1 + CountIn(text, PAGE_LOWER) + CountIn(text, PAGE_OTHER)

\* C1: the indices of the returned pages are 0, 1, ..., n-1 in order; a
\* segment that is empty after trimming consumes no index.
C1_DenseIndices ==
    Parsed => \A i \in 1..Len(parse_result) : parse_result[i].index = i - 1

\* C2: a text holding both "<page>" and "---" is split on "<page>" only:
\* every "---" stays inside a page's content and makes no page boundary.
C2_PageMarkerPrecedence ==
    (Parsed /\ ContainsPageMarker(outline_text) /\ ContainsDashes(outline_text))
        => SplitOnlyOnPageMarker(outline_text, parse_result)

C2_Witness ==
    /\ Parsed
    /\ ContainsPageMarker(outline_text)
    /\ ContainsDashes(outline_text)
    /\ \E i \in 1..Len(parse_result) : ContainsDashes(parse_result[i].content)

\* C3: the choice of the marker is case-insensitive: a text holding the page
\* marker in any letter case is split on every occurrence of it, and "---"
\* is not a separator.
C3_CaseInsensitiveChoice ==
    (Parsed /\ ContainsAnyCasePageMarker(outline_text))
        => SplitOnlyOnPageMarker(outline_text, parse_result)

\* the type the leading tag of a trimmed segment stands for
TagType(content) ==
    IF Len(content) >= 3 /\ content[1] = LBRACKET /\ content[3] = RBRACKET
    THEN IF content[2] = COVER_CN THEN "cover"
         ELSE IF content[2] = SUMMARY_CN THEN "summary"
         ELSE "content"
    ELSE "content"

\* C4: a page whose trimmed segment begins with [fengmian] is a cover, with
\* [zongjie] a summary, with [neirong] or any other or no tag content,
\* whatever follows the closing bracket.
C4_TypeByLeadingTag ==
    Parsed => \A i \in 1..Len(parse_result) :
                 parse_result[i].type = TagType(parse_result[i].content)

\* the segments the text is cut into that are not blank
NonBlankSegments(text) == SelectSeq(PagesRaw(text), NotBlank)

\* C5: the pages are, in order, the segments that are not empty after
\* trimming: no page has empty content, each content is its segment
\* without leading and trailing whitespace, a leading tag is kept.
C5_PagesAreTrimmedSegments ==
    Parsed =>
        LET segs == NonBlankSegments(outline_text) IN
        /\ Len(parse_result) = Len(segs)
        /\ \A i \in 1..Len(parse_result) :
              /\ parse_result[i].content # <<>>
              /\ IsTrimOf(parse_result[i].content, segs[i])

C5_Witness ==
    /\ Parsed
    /\ Len(PagesRaw(outline_text)) > Len(parse_result)
    /\ \E i \in 1..Len(parse_result) :
          /\ parse_result[i].content[1] = LBRACKET
          /\ parse_result[i].type = "cover"
          /\ Len(parse_result[i].content)
               < Len(NonBlankSegments(outline_text)[i])

PageRecords ==
    [index : Nat, type : PageTypes, content : Texts \ {<<>>}]

\* C6: the parser is total: any text gives a list of pages; a non-blank
\* text with neither "<page>" nor "---" gives exactly one page, of index 0,
\* holding the whole trimmed text, of type content unless a recognised
\* leading tag says otherwise.
C6_TotalSinglePage ==
    Parsed =>
        /\ parse_result \in Seq(PageRecords)
        /\ (/\ NotBlank(outline_text)
            /\ ~ContainsPageMarker(outline_text)
            /\ ~ContainsDashes(outline_text))
           => /\ Len(parse_result) = 1
              /\ parse_result[1].index = 0
              /\ IsTrimOf(parse_result[1].content, outline_text)
              /\ (parse_result[1].type # "content"
                    => TagType(parse_result[1].content) = parse_result[1].type)

C6_Witness ==
    /\ Parsed
    /\ NotBlank(outline_text)
    /\ ~ContainsAnyCasePageMarker(outline_text)
    /\ ~ContainsDashes(outline_text)
    /\ outline_text[1] = WS
    /\ Len(parse_result) = 1
    /\ parse_result[1].type = "summary"

---------------------------------------------------------------------------
(* Properties of scan_and_sync_task_images *)

\* the last call was a scan that succeeded and found a record of the task
ScannedWithRecord ==
    /\ result.op = "scan_and_sync_task_images"
    /\ result.ret.success
    /\ "record_id" \in DOMAIN result.ret

\* number of outline pages of record id
PageCount(id) == Cardinality({p \in outline_pages : p.record_id = id})

\* the files of the task directory that a scan includes
IncludedFiles(task_id) ==
    {f \in Files(history_dir[task_id]) :
        ~f.thumb /\ f.ext \in {".png", ".jpg", ".jpeg"}}

IncludedCount(task_id) == Cardinality(IncludedFiles(task_id))

\* C7: the scan derives and stores 'draft' iff actual_count = 0,
\* 'completed' iff actual_count > 0 and actual_count >= expected_count,
\* 'partial' otherwise, and never 'generating'.
C7_StatusThresholds ==
    ScannedWithRecord =>
        LET id == result.ret.record_id
            expected_count == PageCount(id)
            actual_count == IncludedCount(result.task_id)
            status == result.ret.status
        IN  /\ history_records[id].status = status
            /\ result.ret.images_count = actual_count
            /\ Len(result.ret.images) = actual_count
            /\ (status = "draft") <=> (actual_count = 0)
            /\ (status = "completed")
                  <=> (actual_count > 0 /\ actual_count >= expected_count)
            /\ (status = "partial")
                  <=> (actual_count > 0 /\ actual_count < expected_count)
            /\ status \in {"draft", "completed", "partial"}

C7_Witness ==
    /\ ScannedWithRecord
    /\ PageCount(result.ret.record_id) = 3
    /\ IncludedCount(result.task_id) = 2
    /\ history_records[result.ret.record_id].status = "partial"

\* the TaskImage rows of record id, as the list of filenames by image_index
ImageRowsOfList(id, filenames) ==
    {[record_id |-> id, image_index |-> i - 1, filename |-> filenames[i]] :
        i \in 1..Len(filenames)}

\* C8: after a successful scan of a task with a record, the record's
\* TaskImage rows are exactly the scanned filenames by position, for every
\* scan result including the empty one.
C8_ImagesReplacedByScan ==
    ScannedWithRecord =>
        {im \in task_images : im.record_id = result.ret.record_id}
            = ImageRowsOfList(result.ret.record_id, result.ret.images)

\* C9: after a successful scan of a task with a record, the record's
\* thumbnail is the first scanned filename, and None when the scan is empty.
C9_ThumbnailFollowsScan ==
    ScannedWithRecord =>
        history_records[result.ret.record_id].thumbnail
            = IF result.ret.images # <<>> THEN result.ret.images[1] ELSE None

NoRecordOfTask(task_id) ==
    \A id \in DOMAIN history_records : history_records[id].task_id # task_id

\* C10: a scan of an existing directory whose task id no record has returns
\* success with no_record = true, the scanned list, no record_id and no
\* status, and changes no row of the three tables.
C10_OrphanScan ==
    [][\A task_id \in TaskIds :
          (/\ history_dir[task_id].kind = "dir"
           /\ NoRecordOfTask(task_id)
           /\ result'.op = "scan_and_sync_task_images"
           /\ ScanAndSync(task_id))
          => /\ result'.ret.success
             /\ "no_record" \in DOMAIN result'.ret
             /\ result'.ret.no_record
             /\ "record_id" \notin DOMAIN result'.ret
             /\ "status" \notin DOMAIN result'.ret
             /\ Len(result'.ret.images) = IncludedCount(task_id)
             /\ result'.ret.images_count = IncludedCount(task_id)
             /\ Range(result'.ret.images) = IncludedFiles(task_id)
             /\ UNCHANGED <<history_records, outline_pages, task_images>>
      ]_vars

C10_Witness ==
    /\ result.op = "scan_and_sync_task_images"
    /\ result.ret.success
    /\ "no_record" \in DOMAIN result.ret
    /\ result.ret.images # <<>>
    /\ NoRecordOfTask(result.task_id)
    /\ \E id \in DOMAIN history_records :
          /\ TruthyStr(history_records[id].task_id)
          /\ \E im \in task_images : im.record_id = id

\* the last call was a scan of one task that succeeded
Scanned ==
    /\ result.op = "scan_and_sync_task_images"
    /\ result.ret.success

\* C11: a scan of a task whose path under the history root does not exist
\* or is not a directory returns success = false with an error message and
\* changes no row of the three tables, also when a record has the task id.
C11_MissingDirFails ==
    [][\A task_id \in TaskIds :
          (/\ history_dir[task_id].kind \in {"absent", "file"}
           /\ result'.op = "scan_and_sync_task_images"
           /\ ScanAndSync(task_id))
          => /\ result'.ret.success = FALSE
             /\ "error" \in DOMAIN result'.ret
             /\ UNCHANGED <<history_records, outline_pages, task_images>>
      ]_vars

C11_Witness ==
    /\ result.op = "scan_and_sync_task_images"
    /\ ~result.ret.success
    /\ history_dir[result.task_id].kind = "file"
    /\ \E id \in DOMAIN history_records :
          history_records[id].task_id = result.task_id

\* the lower-case image extensions
ImageExtensions == {".png", ".jpg", ".jpeg"}

\* C12: the scanned list holds exactly the names of the directory that do
\* not start with thumb_ and end with lower-case .png, .jpg or .jpeg, each
\* once, and images_count is their number.
C12_ScanFilter ==
    Scanned =>
        LET names == Files(history_dir[result.task_id])
            included == {f \in names : ~f.thumb /\ f.ext \in ImageExtensions}
        IN  /\ Range(result.ret.images) = included
            /\ Len(result.ret.images) = Cardinality(included)
            /\ result.ret.images_count = Cardinality(included)

C12_Witness ==
    /\ Scanned
    /\ result.ret.images_count = 1
    /\ \E f \in Files(history_dir[result.task_id]) :
          f.ext = ".PNG" \/ f.thumb

\* C13: the scanned list is ascending in the integer value of the part of
\* the name before the first '.', and every name whose prefix is no integer
\* comes after every name whose prefix is one, whatever the integer.
C13_NumericOrder ==
    Scanned =>
        \A i, j \in DOMAIN result.ret.images :
            LET a == result.ret.images[i]
                b == result.ret.images[j]
            IN  /\ (a.numeric /\ b.numeric /\ a.n < b.n) => i < j
                /\ (a.numeric /\ ~b.numeric) => i < j

\* C14: a scan of a task right after a scan of the same task, with nothing
\* in between, returns what the first returned and leaves every record's
\* images, thumbnail and status as the first left them.
C14_ScanIdempotent ==
    [][\A task_id \in TaskIds :
          (/\ Scanned
           /\ result.task_id = task_id
           /\ result'.op = "scan_and_sync_task_images"
           /\ ScanAndSync(task_id))
          => /\ result'.ret = result.ret
             /\ task_images' = task_images
             /\ \A id \in DOMAIN history_records :
                   /\ history_records'[id].status = history_records[id].status
                   /\ history_records'[id].thumbnail
                         = history_records[id].thumbnail
      ]_vars

\* a second scan in a row of a task two records have, whose directory holds
\* two names with the same sort key
C14_Witness ==
    /\ Scanned
    /\ "record_id" \in DOMAIN result.ret
    /\ Cardinality(RecordsOfTask(history_records, result.task_id)) = 2
    /\ Len(result.ret.images) = 2
    /\ ~result.ret.images[1].numeric
    /\ ~result.ret.images[2].numeric
    /\ history_records[result.ret.record_id].status = "completed"

\* the tasks that have a directory under the history root
Subdirectories ==
    {t \in TaskIds : history_dir[t].kind \in {"dir", "unreadable_dir"}}

\* C15: scan_all_tasks reconciles every subdirectory once and nothing
\* else; a task that fails is counted as failed and the others are still
\* reconciled; total_tasks = synced + failed + |orphan_tasks| is the number
\* of subdirectories, and results has one entry for each.
C15_ScanAllCounts ==
    result.op = "scan_all_tasks" =>
        LET ret == result.ret
            unreadable == {t \in Subdirectories :
                              history_dir[t].kind = "unreadable_dir"}
            readable == Subdirectories \ unreadable
            orphans == {t \in readable : NoRecordOfTask(t)}
        IN  /\ ret.success
            /\ ret.total_tasks = Cardinality(Subdirectories)
            /\ Len(ret.results) = Cardinality(Subdirectories)
            /\ ret.total_tasks
                  = ret.synced + ret.failed + Len(ret.orphan_tasks)
            /\ ret.failed = Cardinality(unreadable)
            /\ Range(ret.orphan_tasks) = orphans
            /\ Len(ret.orphan_tasks) = Cardinality(orphans)
            /\ \A t \in readable :
                  \E i \in DOMAIN ret.results :
                      /\ ret.results[i].success
                      /\ ret.results[i].task_id = t
                      /\ ret.results[i].images_count = IncludedCount(t)
                      /\ "record_id" \in DOMAIN ret.results[i]
                            => history_records[ret.results[i].record_id].status
                                  = ret.results[i].status

\* a batch with a task that fails and a task that is reconciled with its
\* record
C15_Witness ==
    /\ result.op = "scan_all_tasks"
    /\ result.ret.failed = 1
    /\ result.ret.synced = 1
    /\ \E id \in DOMAIN history_records :
          history_records[id].status = "completed"

---------------------------------------------------------------------------
(* Properties of update_record, create_record and delete_record *)

\* the 'generated' list of an images argument
GeneratedOf(images) ==
    IF images = None THEN <<>> ELSE DictGet(images, "generated", <<>>)

\* the empty string where a filename is expected
EmptyName == [empty |-> TRUE]

\* the list with every None replaced by the empty string
NullsAsEmpty(filenames) ==
    [i \in DOMAIN filenames |->
        IF filenames[i] = None THEN EmptyName ELSE filenames[i]]

\* the TaskImage rows of record id in the table
StoredImages(table, id) == {im \in table : im.record_id = id}

\* the OutlinePage rows of record id in the table
StoredPages(table, id) == {p \in table : p.record_id = id}

\* C16: update_record with a list of images that holds None entries
\* returns True, stores one row per position with '' in place of None, and
\* sets the record's task_id.
C16_NullFilenamesStored ==
    [][\A record_id \in RecordIds, args \in CrudUpdateArgs :
          (/\ result'.op = "update_record"
           /\ record_id \in DOMAIN history_records
           /\ None \in Range(GeneratedOf(args.images))
           /\ UpdateRecord(record_id, args.outline, args.images, args.status,
                           args.thumbnail))
          => /\ result'.ret = TRUE
             /\ StoredImages(task_images', record_id)
                   = ImageRowsOfList(record_id,
                                     NullsAsEmpty(GeneratedOf(args.images)))
             /\ history_records'[record_id].task_id = args.images.task_id
      ]_vars

\* C17: a successful update_record with an images argument leaves the
\* record's rows as they are when 'generated' is empty, still applying a
\* task_id, and replaces them all by the rows of the list, indexed from 0 in
\* list order, when it is not; the rows of other records are left alone.
C17_EmptyListKeepsImages ==
    [][\A record_id \in RecordIds, args \in CrudUpdateArgs :
          (/\ result'.op = "update_record"
           /\ result'.ret = TRUE
           /\ args.images # None
           /\ UpdateRecord(record_id, args.outline, args.images, args.status,
                           args.thumbnail))
          => /\ IF GeneratedOf(args.images) = <<>>
                THEN StoredImages(task_images', record_id)
                        = StoredImages(task_images, record_id)
                ELSE StoredImages(task_images', record_id)
                        = ImageRowsOfList(record_id, GeneratedOf(args.images))
             /\ ("task_id" \in DOMAIN args.images
                    /\ args.images.task_id \notin {NoneStr, ""})
                   => history_records'[record_id].task_id = args.images.task_id
             /\ \A other \in RecordIds \ {record_id} :
                   StoredImages(task_images', other)
                      = StoredImages(task_images, other)
      ]_vars

\* a record whose images were stored for task t1 and that was then given
\* task t2 with an empty list
C17_Witness ==
    /\ result.op = "update_record"
    /\ result.ret = TRUE
    /\ result.record_id \in DOMAIN history_records
    /\ history_records[result.record_id].task_id = "t2"
    /\ StoredImages(task_images, result.record_id)
          = ImageRowsOfList(result.record_id, <<PageImage(1), PageImage(0)>>)

\* C18: update_record with an id no record has returns False and changes
\* no record, page or image, whatever the other arguments.
C18_MissingRecord ==
    [][\A record_id \in RecordIds, args \in CrudUpdateArgs :
          (/\ result'.op = "update_record"
           /\ record_id \notin DOMAIN history_records
           /\ UpdateRecord(record_id, args.outline, args.images, args.status,
                           args.thumbnail))
          => /\ result'.ret = FALSE
             /\ UNCHANGED <<history_records, outline_pages, task_images>>
      ]_vars

C18_Witness ==
    /\ result.op = "update_record"
    /\ result.ret = FALSE
    /\ result.record_id \notin DOMAIN history_records
    /\ \E id \in DOMAIN history_records :
          StoredImages(task_images, id) # {}

\* two pages of the list have the same index
HasDuplicateIndex(pages) ==
    \E i, j \in DOMAIN pages : i # j /\ pages[i].index = pages[j].index

\* the OutlinePage rows of the pages of an outline, for record id
PageRowsOf(id, pages) ==
    {[record_id |-> id, page_index |-> pages[i].index,
      page_type |-> pages[i].type, content |-> pages[i].content] :
        i \in DOMAIN pages}

\* C19: create_record either returns an id no record had, and the store
\* then holds that record with status 'draft', the given title, task_id and
\* raw outline and exactly the given pages, everything else unchanged; or,
\* when the rows cannot be stored, it raises and nothing is stored.
C19_CreateAllOrNothing ==
    [][\A topic \in CrudTopics, outline \in CrudOutlineArgs,
         task_id \in TaskIdArgs :
          (/\ result'.op = "create_record"
           /\ CreateRecord(topic, outline, task_id))
          => IF HasDuplicateIndex(outline.pages) \/ topic = NoneStr
             THEN /\ result'.raised
                  /\ UNCHANGED <<history_records, outline_pages, task_images>>
             ELSE LET id == result'.ret IN
                  /\ ~result'.raised
                  /\ id \notin DOMAIN history_records
                  /\ DOMAIN history_records' = DOMAIN history_records \cup {id}
                  /\ \A other \in DOMAIN history_records :
                        history_records'[other] = history_records[other]
                  /\ history_records'[id].status = "draft"
                  /\ history_records'[id].title = topic
                  /\ history_records'[id].task_id = task_id
                  /\ history_records'[id].outline_text = outline.raw
                  /\ outline_pages'
                        = outline_pages \cup PageRowsOf(id, outline.pages)
                  /\ Cardinality(StoredPages(outline_pages', id))
                        = Len(outline.pages)
                  /\ task_images' = task_images
      ]_vars

\* a call that raised while another record was stored
C19_Witness ==
    /\ result.op = "create_record"
    /\ result.raised
    /\ Cardinality(DOMAIN history_records) = 1
    /\ \A p \in outline_pages : p.record_id \in DOMAIN history_records

\* C20: delete_record of an id no record has returns False and touches
\* neither the database nor the history root.  Of an existing record, when
\* the database accepts the delete, it returns True, removes the record
\* with all its pages and images and nothing else, and removes the task
\* directory the record links to; when removing the directory fails the
\* record is deleted and True returned all the same.
C20_DeleteCascades ==
    [][\A record_id \in RecordIds, commit_ok \in BOOLEAN :
          (/\ result'.op = "delete_record"
           /\ DeleteRecord(record_id, commit_ok))
          => IF record_id \notin DOMAIN history_records
             THEN /\ result'.ret = FALSE
                  /\ UNCHANGED <<history_records, outline_pages, task_images,
                                 history_dir>>
             ELSE commit_ok =>
                  LET t == history_records[record_id].task_id
                      linked == /\ t \in TaskIds
                                /\ history_dir[t].kind
                                      \in {"dir", "unreadable_dir"}
                  IN  /\ result'.ret = TRUE
                      /\ DOMAIN history_records'
                            = DOMAIN history_records \ {record_id}
                      /\ \A other \in DOMAIN history_records' :
                            history_records'[other] = history_records[other]
                      /\ outline_pages'
                            = outline_pages \ StoredPages(outline_pages, record_id)
                      /\ task_images'
                            = task_images \ StoredImages(task_images, record_id)
                      /\ \A other \in TaskIds :
                            (~linked \/ other # t)
                               => history_dir'[other] = history_dir[other]
                      /\ linked =>
                            \/ /\ result'.rmtree = "removed"
                               /\ history_dir'[t].kind = "absent"
                            \/ /\ result'.rmtree = "failed"
                               /\ history_dir'[t].kind = history_dir[t].kind
      ]_vars

\* the record is deleted although its directory could not be removed
C20_Witness ==
    /\ result.op = "delete_record"
    /\ result.ret = TRUE
    /\ result.rmtree = "failed"
    /\ result.record_id \notin DOMAIN history_records
    /\ \E t \in TaskIds : history_dir[t].kind = "dir"
    /\ outline_pages = {}

\* C25: a successful update_record with an outline leaves the record with
\* exactly the pages of that outline, none of the old ones, be they more,
\* fewer or none, and with its raw text as outline_text; without an outline
\* the pages and outline_text stay as they are.
C25_OutlineReplacesPages ==
    [][\A record_id \in RecordIds, args \in CrudUpdateArgs :
          (/\ result'.op = "update_record"
           /\ result'.record_id = record_id
           /\ record_id \in DOMAIN history_records
           /\ UpdateRecord(record_id, args.outline, args.images, args.status,
                           args.thumbnail))
          => IF args.outline # None
             THEN result'.ret = TRUE
                  => /\ StoredPages(outline_pages', record_id)
                          = PageRowsOf(record_id, args.outline.pages)
                     /\ history_records'[record_id].outline_text
                          = args.outline.raw
             ELSE /\ StoredPages(outline_pages', record_id)
                       = StoredPages(outline_pages, record_id)
                  /\ history_records'[record_id].outline_text
                       = history_records[record_id].outline_text
      ]_vars

\* a record created with two pages that an update left without any
C25_Witness ==
    /\ result.op = "update_record"
    /\ result.ret = TRUE
    /\ result.record_id \in DOMAIN history_records
    /\ StoredPages(outline_pages, result.record_id) = {}
    /\ history_records[result.record_id].outline_text = <<>>

\* the database after reconciling task first at time c1 and then task
\* second at time c2
ScannedInOrder(first_task, c1, second_task, c2) ==
    scan_and_sync_task_images(
        scan_and_sync_task_images(Db, history_dir[first_task], first_task,
                                  c1).db,
        history_dir[second_task], second_task, c2).db

\* C26: scan_and_sync_task_images(T) leaves every record whose task_id is
\* not T as it is, with its pages and its images, and reconciling two
\* different tasks gives the same records in either order, each
\* reconciliation taken at its own time.
C26_ScansIndependent ==
    [][\A task_id \in TaskIds :
          (/\ result'.op = "scan_and_sync_task_images"
           /\ result'.task_id = task_id
           /\ ScanAndSync(task_id))
          => /\ \A r \in DOMAIN history_records :
                   history_records[r].task_id # task_id
                   => /\ r \in DOMAIN history_records'
                      /\ history_records'[r] = history_records[r]
                      /\ StoredPages(outline_pages', r)
                           = StoredPages(outline_pages, r)
                      /\ StoredImages(task_images', r)
                           = StoredImages(task_images, r)
             /\ \A other \in TaskIds \ {task_id}, c1, c2 \in {now, now + 1} :
                   ScannedInOrder(task_id, c1, other, c2)
                      = ScannedInOrder(other, c2, task_id, c1)
      ]_vars

\* both tasks have a record and both records hold scanned images
C26_Witness ==
    /\ result.op = "scan_and_sync_task_images"
    /\ \E r1, r2 \in DOMAIN history_records :
          /\ history_records[r1].task_id = "t1"
          /\ history_records[r2].task_id = "t2"
          /\ Cardinality(StoredImages(task_images, r1)) = 2
          /\ StoredImages(task_images, r2) # {}
          /\ history_records[r1].status = "completed"

\* C27: an update_record that returns False for a record that exists
\* leaves that record's row (status, thumbnail, task_id, outline_text,
\* updated_at), its pages and its images exactly as they were: what the
\* call deleted and added before the commit failed is rolled back.
C27_FailedUpdateChangesNothing ==
    [][\A record_id \in RecordIds, args \in CrudUpdateArgs :
          (/\ result'.op = "update_record"
           /\ result'.record_id = record_id
           /\ result'.ret = FALSE
           /\ record_id \in DOMAIN history_records
           /\ UpdateRecord(record_id, args.outline, args.images, args.status,
                           args.thumbnail))
          => /\ history_records'[record_id] = history_records[record_id]
             /\ StoredPages(outline_pages', record_id)
                  = StoredPages(outline_pages, record_id)
             /\ StoredImages(task_images', record_id)
                  = StoredImages(task_images, record_id)
      ]_vars

\* a failed update of a record that has pages and images to lose
C27_Witness ==
    /\ result.op = "update_record"
    /\ result.ret = FALSE
    /\ result.record_id \in DOMAIN history_records
    /\ StoredPages(outline_pages, result.record_id) # {}
    /\ StoredImages(task_images, result.record_id) # {}
    /\ history_records[result.record_id].status = "completed"
    /\ history_records[result.record_id].thumbnail # None

\* C29: a delete_record that returns False for a record that exists leaves
\* the task directory the record is linked to in place.
C29_FailedDeleteKeepsDirectory ==
    [][\A record_id \in RecordIds, commit_ok \in BOOLEAN :
          (/\ result'.op = "delete_record"
           /\ result'.record_id = record_id
           /\ result'.ret = FALSE
           /\ record_id \in DOMAIN history_records
           /\ IsDir(LinkedEntry(history_records, history_dir, record_id))
           /\ DeleteRecord(record_id, commit_ok))
          => IsDir(LinkedEntry(history_records', history_dir', record_id))
      ]_vars

---------------------------------------------------------------------------
(* Properties of the history service under an advancing clock *)

\* C24: over create_record, update_record and scan_and_sync_task_images,
\* with a clock that does not go back, a record's updated_at never
\* decreases and is never earlier than its created_at, and an
\* update_record call that returns True sets it to the time of the call.
C24_UpdatedAtMonotone ==
    [][/\ \A r \in DOMAIN history_records \cap DOMAIN history_records' :
             history_records'[r].updated_at >= history_records[r].updated_at
       /\ \A r \in DOMAIN history_records' :
             history_records'[r].updated_at >= history_records'[r].created_at
       /\ (result'.op = "update_record" /\ result'.ret = TRUE)
             => history_records'[result'.record_id].updated_at = now]_vars

C24_Witness ==
    /\ result.op = "update_record"
    /\ result.ret = TRUE
    /\ history_records[result.record_id].created_at = 0
    /\ history_records[result.record_id].updated_at = MaxClock
    /\ \E r \in DOMAIN history_records : history_records[r].created_at > 0

---------------------------------------------------------------------------
(* Properties of generate_outline *)

\* part occurs in whole, in one piece
IsInfix(part, whole) ==
    \E i \in 0..(Len(whole) - Len(part)) :
        SubSeq(whole, i + 1, i + Len(part)) = part

\* the raw error text of a call that fails
RawError(outcome) ==
    IF outcome.raises THEN outcome.error_msg ELSE TypeErrorText

\* C23: generate_outline returns a result whatever the text provider and
\* the parser do: when either fails, success is false and the error
\* message holds the raw error text, whichever branch of the
\* classification is taken; when success is true the result carries the
\* raw outline and the pages parsed from it.
C23_FailureIsReported ==
    generate_result # NotGenerated =>
        IF client_outcome.raises \/ client_outcome.text = NoText
        THEN /\ ~generate_result.success
             /\ IsInfix(RawError(client_outcome), generate_result.error)
        ELSE /\ generate_result.success
             /\ generate_result.outline = client_outcome.text
             /\ generate_result.pages = _parse_outline(client_outcome.text)

C23_Witness ==
    /\ generate_result # NotGenerated
    /\ ~generate_result.success
    /\ generate_result.error[1] = Fixed("unknown")
    /\ Len(generate_result.error) = 5

---------------------------------------------------------------------------
(* Properties of the provider configuration *)

\* the names of the active rows of a category
ActiveProviders(category) ==
    {n \in NamesOf(provider_configs, category) :
        provider_configs[<<category, n>>].is_active}

\* C21: in every state the table reaches through
\* _update_provider_config_in_db, whatever 'active_provider' and
\* 'providers' the request holds, and through migrate_provider_configs,
\* each category has at most one row with is_active true.
C21_AtMostOneActive ==
    \A category \in Categories : Cardinality(ActiveProviders(category)) <= 1

C21_Witness ==
    /\ config_result.op = "_update_provider_config_in_db"
    /\ config_result.category = "image"
    /\ ~config_result.raised
    /\ ActiveProviders("image") = {"gemini"}
    /\ "openai" \in NamesOf(provider_configs, "image")
    /\ ActiveProviders("text") = {"openai"}

\* the last step was a call of get_text_provider_config() or of
\* get_image_provider_config()
GotProviderConfig == config_result.op = "get_provider_config"

\* the memo of a category holds what the table holds
MemoIsCurrent(category) ==
    providers_config[category]
        = _get_providers_from_db(provider_configs, category)

\* a row a generation can run with: it has an API key and, for an image
\* provider of a type that is reached through a URL, a base URL
IsComplete(category, row) ==
    /\ row.api_key \notin {"", NoneStr}
    /\ (category = "image"
        /\ row.provider_type \in {"openai", "openai_compatible", "image_api"})
       => row.base_url \notin {"", NoneStr}

\* C22: get_text_provider_config() and get_image_provider_config(), called
\* without a name on a configuration that is the table's, return a
\* configuration only if the category has an active provider and that
\* provider is complete, and then its configuration; otherwise they raise
\* ValueError.
C22_NeverSilentlyDefaults ==
    (GotProviderConfig /\ MemoIsCurrent(config_result.category)) =>
        LET category == config_result.category
            call == config_result.call
            usable == {n \in ActiveProviders(category) :
                          IsComplete(category,
                                     provider_configs[<<category, n>>])}
        IN  IF usable = {} THEN call.raised
            ELSE /\ ~call.raised
                 /\ call.provider_name \in usable
                 /\ call.ret = ProviderDict(provider_configs[
                                   <<category, call.provider_name>>])

\* no request is being served
Quiescent == config_pc = "idle" /\ load_pc = NotLoading

\* C28: once a POST /config request has finished, be it with success or
\* with an error after part of its changes was committed, and whatever
\* load_*_providers_config call ran beside it, the memo of a category is
\* empty or holds what the table holds, so that the next load returns the
\* configuration of the table.
C28_MemoNeverStale ==
    Quiescent => \A category \in Categories :
                    LoadedConfig(category)
                        = _get_providers_from_db(provider_configs, category)

\* the key stored for a provider, '' when it has no row
StoredKey(table, category, name) ==
    IF <<category, name>> \in DOMAIN table
    THEN table[<<category, name>>].api_key
    ELSE ""

\* the member 'api_key' of an entry, None when it is absent
SuppliedKey(provider_config) ==
    IF "api_key" \in DOMAIN provider_config THEN provider_config.api_key
    ELSE JNull

\* absent, None, a boolean or the empty string
IsPlaceholderKey(api_key) ==
    api_key.t \in {"null", "bool"} \/ api_key = JStr("")

IsNonEmptyString(api_key) == api_key.t = "str" /\ api_key.v # ""

\* a number Python holds equal to False or to True
IsZeroOrOne(api_key) == api_key.t = "num" /\ api_key.v \in {"0", "1"}

\* a call of _update_provider_config_in_db with a 'providers' map was
\* made by the step and committed
UpdatedProviders(category, new_data) ==
    /\ new_data # NoPart
    /\ "providers" \in DOMAIN new_data
    /\ config_result'.op = "_update_provider_config_in_db"
    /\ config_result'.category = category
    /\ ~config_result'.raised
    /\ \/ category = "image" /\ UpdateConfigImage(new_data)
       \/ category = "text" /\ UpdateConfigText(new_data)

\* C30 as stated: an entry whose api_key is absent, empty, None or a
\* boolean keeps the key stored for its (category, name); the stored key
\* changes only when a non-empty string is supplied; a provider of the
\* category that is missing from the map is deleted.
C30_KeyChangesOnlyByString ==
    [][\A category \in Categories, new_data \in ImageParts \cup TextParts :
          UpdatedProviders(category, new_data)
          => /\ \A name \in DOMAIN new_data.providers :
                   LET api_key == SuppliedKey(new_data.providers[name])
                       old == StoredKey(provider_configs, category, name)
                       new == StoredKey(provider_configs', category, name)
                   IN  /\ IsPlaceholderKey(api_key) => new = old
                       /\ new # old => IsNonEmptyString(api_key)
             /\ NamesOf(provider_configs', category)
                  = DOMAIN new_data.providers
      ]_vars

\* C30 as amended: an entry whose api_key is absent, empty, None, a
\* boolean or a number equal to 0 or 1 keeps the key stored for its
\* (category, name); any other value is stored, a string as it is and a
\* number as its numeral; a provider of the category that is missing from
\* the map is deleted.
C30_KeyKeptOnPlaceholder ==
    [][\A category \in Categories, new_data \in ImageParts \cup TextParts :
          UpdatedProviders(category, new_data)
          => /\ \A name \in DOMAIN new_data.providers :
                   LET api_key == SuppliedKey(new_data.providers[name])
                       old == StoredKey(provider_configs, category, name)
                       new == StoredKey(provider_configs', category, name)
                   IN  IF IsPlaceholderKey(api_key) \/ IsZeroOrOne(api_key)
                       THEN new = old
                       ELSE new = api_key.v
             /\ NamesOf(provider_configs', category)
                  = DOMAIN new_data.providers
      ]_vars

\* both image providers keep a key through an update that names none
C30_Witness ==
    /\ config_result.op = "_update_provider_config_in_db"
    /\ config_result.category = "image"
    /\ ~config_result.raised
    /\ ActiveProviders("image") = {}
    /\ StoredKey(provider_configs, "image", "openai") = "k1"
    /\ StoredKey(provider_configs, "image", "gemini") \in {"k2", "5"}

====
